---- MODULE Spec2Model ----
(***************************************************************************)
(* A model of babo's 2D rendering layer: the checked graphics call (gl!),  *)
(* ShaderProgram's typed uniform setters, SpriteRenderer::draw, and        *)
(* Font / FontRenderer with the lazily filled glyph cache.                 *)
(*                                                                         *)
(* The program is single threaded: one call is in progress at a time.      *)
(* `op` names that call and `pc` its position; pc = "ret" means the call   *)
(* has returned `result` to its caller and the next call may begin.  Every *)
(* graphics-API call is one step, so that the API state at the moment a    *)
(* command is issued is a state of the model.                              *)
(***************************************************************************)
EXTENDS Integers, Sequences, FiniteSets, TLC

VARIABLES
    gl,             \* the graphics context: pending error flag and bindings
    cmds,           \* API functions called by the call in progress, in order
    op,             \* the call in progress (or the one that returned last)
    pc,             \* its position; "ret" once it has returned
    result,         \* what it returned
    missing,        \* the <<program, uniform name>> the linker left inactive
    queried,        \* the <<program, name>> GetUniformLocation was called for
    fontState,      \* "none", "building", "live" or "dropped"
    glyphs,         \* Font.glyphs: HashMap<char, Character>
    rasterized,     \* the characters face.load_char was called for
    firstRet,       \* what the first load of each of DrawChars returned
    retChar,        \* the &Character the last load_glyph returned
    nextTexId,      \* the next unused texture name
    text,           \* FontRenderer::draw: the string being drawn
    idx,            \* position of the loop (draw: in text; load: char code)
    pen,            \* FontRenderer::draw: the locals x and y
    scale,          \* FontRenderer::draw: the scale argument
    curChar,        \* the argument of the load_glyph in progress
    loads,          \* characters load_glyph was called with by this call
    vertices,       \* FontRenderer::draw: the quad of the current character
    uarg,           \* the arguments of the direct setter call in progress
    usedProgram,    \* program that was current at each uniform upload of this call
    textures,       \* the Texture values the application holds, by handle
    gpuTex,         \* the texture objects of the API, by name: their parameters
    shaderObjs,     \* the shader objects of the API, by name
    progObjs,       \* the program objects of the API, by name
    shaderVals,     \* names of the Shader values returned to the application
    progVals,       \* names of the ShaderProgram values returned
    nextObjId,      \* the next unused shader / program name
    sarg,           \* arguments and locals of the shader call in progress
    camera,         \* the Camera value the application holds
    viewOut,        \* the matrix the last Camera::view() returned
    targ,           \* SpriteRenderer::draw: projection, view, position, size, rotation
    transform       \* SpriteRenderer::draw: the local `transform`

vars == <<gl, cmds, op, pc, result, missing, queried, fontState, glyphs,
          rasterized, firstRet, retChar, nextTexId, text, idx, pen, scale,
          curChar, loads, vertices, uarg, usedProgram, textures, gpuTex,
          shaderObjs, progObjs, shaderVals, progVals, nextObjId, sarg,
          camera, viewOut, targ, transform>>

glyphVars == <<fontState, glyphs, rasterized, firstRet, nextTexId>>
drawVars == <<text, idx, pen, scale, loads, vertices, retChar>>
uniformVars == <<missing, queried>>
shaderVars == <<shaderObjs, progObjs, shaderVals, progVals, nextObjId, sarg>>
cameraVars == <<camera, viewOut, targ, transform>>
resourceVars == <<textures, gpuTex, shaderVars, cameraVars>>

-----------------------------------------------------------------------------
(* Bounds of the model *)

MaxTextLen == 2         \* longest string handed to FontRenderer::draw

(* Program constants *)

NumDefaultGlyphs == 128
NO_ERROR == 0
INVALID_OPERATION == 1282
NEWLINE == 10

-----------------------------------------------------------------------------
(* The graphics context *)

NoObject == "0"
SpriteShader == "sprite.shader"
FontShader == "font.shader"
QuadVao == "sprite.quad_vao"
FontVao == "font.vao"
FontVbo == "font.vbo"
Programs == {SpriteShader, FontShader}

\* the texture handed to SpriteRenderer::draw
SpriteTextureId == 1

\* error codes a call may raise; NO_ERROR: the call raises none
RaiseCodes == {NO_ERROR, INVALID_OPERATION}

InitGl == [err |-> NO_ERROR, program |-> NoObject, vao |-> NoObject,
           tex |-> 0, blend |-> FALSE, blendFunc |-> <<"ONE", "ZERO">>]

\* an entry of the log of API calls: the function, its main argument (a name,
\* a texture name or the vertices) and the
\* code GetError returned after it (NO_ERROR also when nothing asked)
Cmd(fn, arg, err) == [err |-> err, fn |-> fn, arg |-> arg]

\* A raw API call: a command that raises an error is ignored by the API and
\* the error flag records the first error raised since it was last read.
RawCall(g, raise, applied) ==
    IF raise = NO_ERROR THEN applied
    ELSE [g EXCEPT !.err = IF g.err = NO_ERROR THEN raise ELSE g.err]

\* gl_error_string
gl_error_string(error) ==
    CASE error = 1280 -> "Invalid enum"
      [] error = 1281 -> "Invalid value"
      [] error = INVALID_OPERATION -> "Invalid operation"
      [] error = 1286 -> "Invalid framebuffer operation"
      [] error = 1285 -> "Out of memory"
      [] OTHER -> "Unknown error"

Ok == [tag |-> "Ok", name |-> "", method |-> "", code |-> NO_ERROR, message |-> ""]
Pending == [Ok EXCEPT !.tag = "pending"]
\* the macro builds the method from the string literal "$func"
GlError(err) ==
    [tag |-> "GlError", name |-> "", method |-> "$func", code |-> err,
     message |-> gl_error_string(err)]
UniformNotFound(n) == [Ok EXCEPT !.tag = "UniformNotFound", !.name = n]
FtError == [Ok EXCEPT !.tag = "FtError"]
TextureError == [Ok EXCEPT !.tag = "TextureError"]

IsErr(r) == r.tag \notin {"Ok", "pending"}

\* gl!(func, args): the call, then GetError, which returns and clears the flag.
\* The step goes on to `next` when the flag was clear (next = "ret": this was
\* the last statement and the operation returns Ok) and returns the GlError to
\* the caller of the operation (the `?`) otherwise.
Checked(fn, arg, applied, next) ==
    \E raise \in RaiseCodes :
        LET called == RawCall(gl, raise, applied)
            err == called.err
        IN /\ gl' = [called EXCEPT !.err = NO_ERROR]
           /\ cmds' = Append(cmds, Cmd(fn, arg, err))
           /\ IF err = NO_ERROR
              THEN pc' = next /\ result' = IF next = "ret" THEN Ok ELSE result
              ELSE pc' = "ret" /\ result' = GlError(err)

\* gl!(func, args); with the result dropped: the flag is read and cleared and
\* the operation goes on whatever it was.
CheckedIgnored(fn, arg, applied, next) ==
    \E raise \in RaiseCodes :
        LET called == RawCall(gl, raise, applied)
        IN /\ gl' = [called EXCEPT !.err = NO_ERROR]
           /\ cmds' = Append(cmds, Cmd(fn, arg, called.err))
           /\ pc' = next
           /\ result' = result

-----------------------------------------------------------------------------
(* ShaderProgram *)

UniformNames == {"transform", "spriteColor", "textColor"}

\* the uniforms the embedded shader pair of each renderer is written to have
DeclaredUniforms(prog) ==
    IF prog = SpriteShader THEN {"transform", "spriteColor"}
    ELSE {"textColor", "transform"}

NoneMissing == <<NoObject, "">>
MissingChoices ==
    {NoneMissing} \cup
    UNION {{<<p, n>> : n \in DeclaredUniforms(p)} : p \in Programs}

\* gl::GetUniformLocation: -1 when the program has no such active uniform
GetUniformLocation(prog, name) ==
    IF name \in DeclaredUniforms(prog) /\ <<prog, name>> # missing
    THEN IF name = "transform" THEN 0 ELSE 1
    ELSE -1

UniformFn(kind) ==
    CASE kind = "1f" -> "Uniform1f"
      [] kind = "1i" -> "Uniform1i"
      [] kind = "3f" -> "Uniform3f"
      [] kind = "4f" -> "Uniform4f"
      [] kind = "mat4" -> "UniformMatrix4fv"

UniformKinds == {"1f", "1i", "3f", "4f", "mat4"}

\* ShaderProgram::use_program: the checked call's result is dropped
use_program(prog, next) ==
    CheckedIgnored("UseProgram", prog, [gl EXCEPT !.program = prog], next)

\* Faulty variant of set_uniform: the location is not looked at and the upload
\* is made with whatever GetUniformLocation returned, -1 included.
set_uniform_unchecked(prog, kind, name, next) ==
    /\ queried' = queried \cup {<<prog, name>>}
    /\ missing' = missing
    /\ \E raise \in IF gl.program = NoObject THEN {INVALID_OPERATION}
                    ELSE RaiseCodes :
          LET called == RawCall(gl, raise, gl)
              err == called.err
          IN /\ gl' = [called EXCEPT !.err = NO_ERROR]
             /\ IF err = NO_ERROR
                THEN /\ pc' = next
                     /\ result' = IF next = "ret" THEN Ok ELSE result
                ELSE pc' = "ret" /\ result' = GlError(err)
             /\ cmds' = cmds \o <<Cmd("GetUniformLocation", name, NO_ERROR),
                                  Cmd(UniformFn(kind), name, err)>>
    /\ usedProgram' = Append(usedProgram, gl.program)

\* set_uniform_{1f,1i,3f,4f,mat4}: get_uniform_location(name)?, then the
\* checked upload.  An upload with no current program is an error of the API.
set_uniform(prog, kind, name, next) ==
    LET location == GetUniformLocation(prog, name) IN
    /\ queried' = queried \cup {<<prog, name>>}
    /\ missing' = missing
    /\ IF location = -1
       THEN /\ cmds' = Append(cmds, Cmd("GetUniformLocation", name, NO_ERROR))
            /\ result' = UniformNotFound(name)
            /\ pc' = "ret"
            /\ gl' = gl
            /\ usedProgram' = usedProgram
       ELSE /\ \E raise \in IF gl.program = NoObject THEN {INVALID_OPERATION}
                            ELSE RaiseCodes :
                 LET called == RawCall(gl, raise, gl)
                     err == called.err
                 IN /\ gl' = [called EXCEPT !.err = NO_ERROR]
                    /\ IF err = NO_ERROR
                       THEN /\ pc' = next
                            /\ result' = IF next = "ret" THEN Ok ELSE result
                       ELSE pc' = "ret" /\ result' = GlError(err)
                    /\ cmds' = cmds \o
                                <<Cmd("GetUniformLocation", name, NO_ERROR),
                                  Cmd(UniformFn(kind), name, err)>>
            /\ usedProgram' = Append(usedProgram, gl.program)

NoArgs == [text |-> <<>>, idx |-> 0, pen |-> <<0, 0>>, scale |-> 1,
           uarg |-> [name |-> "", prog |-> NoObject, kind |-> ""],
           c |-> 0]

\* The application calls operation o with the arguments args: the locals of
\* the call that returned before are gone.
BeginCall(o, first, args) ==
    /\ pc = "ret"
    /\ op' = o
    /\ pc' = first
    /\ result' = Pending
    /\ cmds' = <<>>
    /\ usedProgram' = <<>>
    /\ loads' = <<>>
    /\ vertices' = <<>>
    /\ retChar' = <<>>
    /\ text' = args.text
    /\ pen' = args.pen
    /\ scale' = args.scale
    /\ idx' = args.idx
    /\ curChar' = args.c
    /\ uarg' = args.uarg
    /\ UNCHANGED <<gl, glyphVars, uniformVars>>

\* ... and the program's resources are as they were
Begin(o, first, args) ==
    BeginCall(o, first, args) /\ UNCHANGED resourceVars

-----------------------------------------------------------------------------
(* A typed setter called directly by the application, on the program of   *)
(* the FontRenderer's public `shader` field                               *)

SetUniformBegin ==
    \E kind \in UniformKinds, name \in UniformNames :
        Begin("set_uniform", "u_set",
              [NoArgs EXCEPT !.uarg = [name |-> name, prog |-> FontShader,
                                       kind |-> kind]])

SetUniformUpload ==
    /\ op = "set_uniform" /\ pc = "u_set"
    /\ set_uniform(uarg.prog, uarg.kind, uarg.name, "ret")
    /\ UNCHANGED <<op, uarg, glyphVars, drawVars, curChar,
                   resourceVars>>

-----------------------------------------------------------------------------
(* SpriteRenderer::draw *)

SpriteDrawBegin ==
    Begin("sprite_draw", "s_enable", NoArgs)

SpriteStep(at) == op = "sprite_draw" /\ pc = at
SpriteFrame == UNCHANGED <<op, uarg, usedProgram, glyphVars, drawVars, curChar,
                           uniformVars, resourceVars>>
SpriteUniformFrame == UNCHANGED <<op, uarg, glyphVars, drawVars, curChar, resourceVars>>

SpriteEnableBlend ==
    /\ SpriteStep("s_enable")
    /\ Checked("Enable", "BLEND", [gl EXCEPT !.blend = TRUE], "s_blendfunc")
    /\ SpriteFrame

SpriteBlendFunc ==
    /\ SpriteStep("s_blendfunc")
    /\ Checked("BlendFunc", "SRC_ALPHA",
               [gl EXCEPT !.blendFunc = <<"SRC_ALPHA", "ONE_MINUS_SRC_ALPHA">>],
               "s_use")
    /\ SpriteFrame

SpriteUseProgram ==
    /\ SpriteStep("s_use")
    /\ use_program(SpriteShader, "s_bindvao")
    /\ SpriteFrame

SpriteBindVao ==
    /\ SpriteStep("s_bindvao")
    /\ Checked("BindVertexArray", QuadVao, [gl EXCEPT !.vao = QuadVao], "s_activetex")
    /\ SpriteFrame

SpriteActiveTexture ==
    /\ SpriteStep("s_activetex")
    /\ Checked("ActiveTexture", "TEXTURE0", gl, "s_bindtex")
    /\ SpriteFrame

SpriteBindTexture ==
    /\ SpriteStep("s_bindtex")
    /\ Checked("BindTexture", SpriteTextureId,
               [gl EXCEPT !.tex = SpriteTextureId], "s_transform")
    /\ SpriteFrame

SpriteSetTransform ==
    /\ SpriteStep("s_transform")
    /\ set_uniform(SpriteShader, "mat4", "transform", "s_color")
    /\ SpriteUniformFrame

SpriteSetColor ==
    /\ SpriteStep("s_color")
    /\ set_uniform(SpriteShader, "3f", "spriteColor", "s_draw")
    /\ SpriteUniformFrame

SpriteDrawArrays ==
    /\ SpriteStep("s_draw")
    /\ Checked("DrawArrays", "TRIANGLES", gl, "s_unbindvao")
    /\ SpriteFrame

SpriteUnbindVao ==
    /\ SpriteStep("s_unbindvao")
    /\ Checked("BindVertexArray", NoObject, [gl EXCEPT !.vao = NoObject], "s_disable")
    /\ SpriteFrame

\* Faulty variant of the last statement of draw: the call made does not turn
\* blending off.
SpriteLeaveBlend ==
    /\ SpriteStep("s_disable")
    /\ Checked("Disable", "BLEND", gl, "ret")
    /\ SpriteFrame

SpriteDisableBlend ==
    /\ SpriteStep("s_disable")
    /\ Checked("Disable", "BLEND", [gl EXCEPT !.blend = FALSE], "ret")
    /\ SpriteFrame

-----------------------------------------------------------------------------
(* Font: the glyph cache *)

DefaultChars == 0 .. (NumDefaultGlyphs - 1)

\* the characters handed to load_glyph and draw by the application: the
\* newline, an ASCII letter and a character outside the eagerly loaded range
DrawChars == {NEWLINE, 65, 200}

\* face.load_char(c, RENDER) then face.glyph(): the glyph slot of the face at
\* the pixel size set by Font::new (advance in 1/64 pixel)
RenderGlyph(c) ==
    IF c = NEWLINE
    THEN [width |-> 0, rows |-> 1, left |-> 0, top |-> 0, advance |-> 70]
    ELSE [width |-> 1 + (c % 2), rows |-> 2 + (c % 2), left |-> c % 2,
          top |-> 1 + (c % 2), advance |-> 64 * (1 + (c % 2)) + 37]

\* Character::try_from(slot) with the texture named id
Character(slot, id) ==
    [advance |-> slot.advance,
     texture |-> [width |-> slot.width, id |-> id, height |-> slot.rows],
     bearing |-> <<slot.left, slot.top>>]

\* Faulty variant of the lookup: the cache is never found to hold a character.
contains_key_never(map, c) == FALSE

\* Faulty variant of the insertion: the map keeps the newest entry only.
insert_evicting(map, c, v) == [k \in {c} |-> v]

\* HashMap::contains_key
contains_key(map, c) == c \in DOMAIN map

\* HashMap::insert: a present key is given the new value
insert(map, c, v) ==
    [k \in DOMAIN map \cup {c} |-> IF k = c THEN v ELSE map[k]]

\* load_glyph(c) returns Ok(self.glyphs.get(&c).unwrap()) to the operation in
\* progress: a direct call returns it to the application, load_default_glyphs
\* goes on with the next character, draw goes on with this character's quad.
GlyphReturned(c, map) ==
    /\ retChar' = <<map[c]>>
    /\ firstRet' = IF c \in DOMAIN firstRet \/ c \notin DrawChars
                   THEN firstRet
                   ELSE [k \in DOMAIN firstRet \cup {c} |->
                            IF k = c THEN map[c] ELSE firstRet[k]]
    /\ CASE op' = "load_glyph" -> pc' = "ret" /\ result' = Ok /\ idx' = idx
         [] op' = "load_font" ->
                pc' = "lf_loop" /\ result' = result /\ idx' = idx + 1
         [] op' = "font_draw" ->
                pc' = "f_enable" /\ result' = result /\ idx' = idx

\* a `?` of load_glyph returns the error through every caller; the Font that
\* Font::new was building is dropped
GlyphFailed == fontState' = IF op = "load_font" THEN "dropped" ELSE fontState

\* load_glyph, line 77: the cache is looked up first
load_glyph(c) ==
    /\ curChar' = c
    /\ loads' = Append(loads, c)
    /\ IF contains_key(glyphs, c)
       THEN GlyphReturned(c, glyphs)
       ELSE /\ pc' = "g_pixelstore"
            /\ result' = result
            /\ UNCHANGED <<retChar, firstRet, idx>>

GlyphStep(at) == op \in {"load_glyph", "load_font", "font_draw"} /\ pc = at

GlyphPixelStore ==
    /\ GlyphStep("g_pixelstore")
    /\ Checked("PixelStorei", "UNPACK_ALIGNMENT", gl, "g_loadchar")
    /\ fontState' = IF pc' = "ret" /\ op = "load_font" THEN "dropped"
                    ELSE fontState
    /\ UNCHANGED <<op, glyphs, rasterized, firstRet, nextTexId,
                   drawVars, curChar, uarg, usedProgram, uniformVars, resourceVars>>

\* Faulty variant of the rasterizing step: the cache entry is made before the
\* character is known to load.
GlyphLoadChar_caching ==
    /\ GlyphStep("g_loadchar")
    /\ rasterized' = rasterized \cup {curChar}
    /\ glyphs' = insert(glyphs, curChar, Character(RenderGlyph(curChar), 0))
    /\ \E ok \in BOOLEAN :
          IF ok THEN pc' = "g_tryfrom" /\ result' = result
                     /\ fontState' = fontState
          ELSE pc' = "ret" /\ result' = FtError /\ GlyphFailed
    /\ UNCHANGED <<gl, cmds, op, firstRet, nextTexId,
                   drawVars, curChar, uarg, usedProgram, uniformVars, resourceVars>>

GlyphLoadChar ==
    /\ GlyphStep("g_loadchar")
    /\ rasterized' = rasterized \cup {curChar}
    /\ \E ok \in BOOLEAN :
          IF ok THEN pc' = "g_tryfrom" /\ result' = result
                     /\ fontState' = fontState
          ELSE pc' = "ret" /\ result' = FtError /\ GlyphFailed
    /\ UNCHANGED <<gl, cmds, op, glyphs, firstRet, nextTexId,
                   drawVars, curChar, uarg, usedProgram, uniformVars, resourceVars>>

\* Character::try_from(slot)?, self.glyphs.insert(c, character) and the return.
\* The texture is created as Texture::new creates one: a new name, bound for
\* the upload and unbound again.
GlyphTryFrom ==
    /\ GlyphStep("g_tryfrom")
    /\ \E ok \in BOOLEAN :
          IF ok
          THEN LET character == Character(RenderGlyph(curChar), nextTexId)
                   map == insert(glyphs, curChar, character)
               IN /\ glyphs' = map
                  /\ nextTexId' = nextTexId + 1
                  /\ gl' = [gl EXCEPT !.tex = 0]
                  /\ cmds' = Append(cmds, Cmd("GenTextures", nextTexId,
                                               NO_ERROR))
                  /\ op' = op
                  /\ GlyphReturned(curChar, map)
                  /\ fontState' = fontState
          ELSE /\ pc' = "ret" /\ result' = TextureError /\ GlyphFailed
               /\ UNCHANGED <<gl, cmds, op, glyphs, firstRet, retChar,
                              nextTexId, idx>>
    /\ UNCHANGED <<rasterized, text, pen, scale, loads, vertices, curChar,
                   uarg, usedProgram, uniformVars, resourceVars>>

-----------------------------------------------------------------------------
(* Font::load_glyph called by the application *)

LoadGlyphBegin ==
    /\ fontState = "live"
    /\ \E c \in DrawChars : Begin("load_glyph", "g_call", [NoArgs EXCEPT !.c = c])

LoadGlyphCall ==
    /\ op = "load_glyph" /\ pc = "g_call"
    /\ op' = op
    /\ load_glyph(curChar)
    /\ UNCHANGED <<gl, cmds, fontState, glyphs, rasterized, nextTexId, text,
                   pen, scale, vertices, uarg, usedProgram, uniformVars, resourceVars>>

-----------------------------------------------------------------------------
(* FontRenderer::load_font: Font::new and load_default_glyphs *)

LoadFontBegin ==
    /\ fontState = "none"
    /\ Begin("load_font", "lf_new_face", NoArgs)

LoadFontFrame == UNCHANGED <<gl, cmds, op, glyphs, rasterized, firstRet,
                             retChar, nextTexId, text, pen, scale, loads,
                             vertices, curChar, uarg, usedProgram, uniformVars, resourceVars>>

\* library.new_face(path, 0)?
LoadFontNewFace ==
    /\ op = "load_font" /\ pc = "lf_new_face"
    /\ \E ok \in BOOLEAN :
          IF ok THEN pc' = "lf_set_size" /\ result' = result
          ELSE pc' = "ret" /\ result' = FtError
    /\ UNCHANGED <<fontState, idx>>
    /\ LoadFontFrame

\* face.set_pixel_sizes(0, size)?, then the Font with an empty cache
LoadFontSetPixelSizes ==
    /\ op = "load_font" /\ pc = "lf_set_size"
    /\ \E ok \in BOOLEAN :
          IF ok THEN /\ pc' = "lf_loop" /\ result' = result
                     /\ fontState' = "building" /\ idx' = 0
          ELSE /\ pc' = "ret" /\ result' = FtError
               /\ UNCHANGED <<fontState, idx>>
    /\ LoadFontFrame

\* Faulty variant of the range: 0..127, the last character is left out.
InDefaultRange_short(c) == c < NumDefaultGlyphs - 1

\* the range of load_default_glyphs: 0..128
InDefaultRange(c) == c < NumDefaultGlyphs

\* for c in 0..128 { self.load_glyph(c)?; }  Ok(()), and Ok(font)
LoadDefaultGlyphs ==
    /\ op = "load_font" /\ pc = "lf_loop"
    /\ op' = op
    /\ IF InDefaultRange(idx)
       THEN load_glyph(idx) /\ fontState' = fontState
       ELSE /\ pc' = "ret" /\ result' = Ok /\ fontState' = "live"
            /\ UNCHANGED <<curChar, loads, retChar, firstRet, idx>>
    /\ UNCHANGED <<gl, cmds, glyphs, rasterized, nextTexId, text, pen, scale,
                   vertices, uarg, usedProgram, uniformVars, resourceVars>>

-----------------------------------------------------------------------------
(* FontRenderer::draw *)

RECURSIVE SeqsUpTo(_, _)
SeqsUpTo(S, n) ==
    IF n = 0 THEN {<<>>}
    ELSE LET shorter == SeqsUpTo(S, n - 1)
         IN shorter \cup {Append(t, c) : t \in shorter, c \in S}

Texts == SeqsUpTo(DrawChars, MaxTextLen)
\* the x, y and scale handed to draw
DrawArgs == {[pen |-> <<0, 0>>, scale |-> 1], [pen |-> <<3, 1>>, scale |-> 2]}

\* `f as u32` of a float saturates: below at 0, and above at 2^32 - 1, which
\* no advance of the model comes near
AsU32(f) == IF f < 0 THEN 0 ELSE f

\* lines 193-225: the quad of a character at pen position p
Quad(p, character, s) ==
    LET xpos == p[1] + character.bearing[1] * s
        ypos == p[2] - (character.texture.height - character.bearing[2]) * s
        w == character.texture.width * s
        h == character.texture.height * s
    IN << xpos, ypos + h, 0, 0,
          xpos, ypos, 0, 1,
          xpos + w, ypos, 1, 1,
          xpos, ypos + h, 0, 0,
          xpos + w, ypos, 1, 1,
          xpos + w, ypos + h, 1, 0 >>

\* Faulty variant of the pen rule: a newline does not reset x.
AdvancePen_noReset(p, c, character, s) ==
    LET x == p[1] + (AsU32(character.advance) \div 64) * s
    IN IF c = NEWLINE
       THEN <<x, p[2] + character.texture.height * s>>
       ELSE <<x, p[2]>>

\* Faulty variant of the pen rule: the advance is taken as pixels, not shifted.
AdvancePen_noShift(p, c, character, s) ==
    LET x == p[1] + AsU32(character.advance) * s
    IN IF c = NEWLINE
       THEN <<0, p[2] + character.texture.height * s>>
       ELSE <<x, p[2]>>

\* lines 243-247: the pen after a character
AdvancePen(p, c, character, s) ==
    LET x == p[1] + (AsU32(character.advance) \div 64) * s
    IN IF c = NEWLINE
       THEN <<0, p[2] + character.texture.height * s>>
       ELSE <<x, p[2]>>

FontDrawBegin ==
    /\ fontState = "live"
    /\ \E t \in Texts, a \in DrawArgs :
          Begin("font_draw", "f_use",
                [NoArgs EXCEPT !.text = t, !.pen = a.pen, !.scale = a.scale,
                               !.idx = 1])

FontStep(at) == op = "font_draw" /\ pc = at
FontFrame == UNCHANGED <<op, uarg, usedProgram, glyphVars, drawVars, curChar,
                         uniformVars, resourceVars>>
FontUniformFrame == UNCHANGED <<op, uarg, glyphVars, drawVars, curChar, resourceVars>>
\* the character of this iteration: the reference load_glyph returned
character == retChar[1]

FontUseProgram ==
    /\ FontStep("f_use")
    /\ use_program(FontShader, "f_color")
    /\ FontFrame

FontSetColor ==
    /\ FontStep("f_color")
    /\ set_uniform(FontShader, "3f", "textColor", "f_transform")
    /\ FontUniformFrame

FontSetTransform ==
    /\ FontStep("f_transform")
    /\ set_uniform(FontShader, "mat4", "transform", "f_activetex")
    /\ FontUniformFrame

FontActiveTexture ==
    /\ FontStep("f_activetex")
    /\ Checked("ActiveTexture", "TEXTURE0", gl, "f_bindvao")
    /\ FontFrame

FontBindVao ==
    /\ FontStep("f_bindvao")
    /\ Checked("BindVertexArray", FontVao, [gl EXCEPT !.vao = FontVao], "f_loop")
    /\ FontFrame

\* Faulty variant of the loop: the last character of the text is skipped.
HasChar_short(t, i) == i < Len(t)

\* text.chars() has an i-th character
HasChar(t, i) == i <= Len(t)

\* for c in text.chars() { let character = font.load_glyph(c)?; ...
FontNextChar ==
    /\ FontStep("f_loop")
    /\ op' = op
    /\ IF HasChar(text, idx)
       THEN load_glyph(text[idx])
       ELSE /\ pc' = "f_unbindvao" /\ result' = result
            /\ UNCHANGED <<curChar, loads, retChar, firstRet, idx>>
    /\ UNCHANGED <<gl, cmds, fontState, glyphs, rasterized, nextTexId, text,
                   pen, scale, vertices, uarg, usedProgram, uniformVars, resourceVars>>

\* the quad is computed from the pen, then blending is enabled
FontEnableBlend ==
    /\ FontStep("f_enable")
    /\ vertices' = Quad(pen, character, scale)
    /\ Checked("Enable", "BLEND", [gl EXCEPT !.blend = TRUE], "f_blendfunc")
    /\ UNCHANGED <<op, uarg, usedProgram, glyphVars, text, idx, pen, scale,
                   loads, retChar, curChar, uniformVars, resourceVars>>

FontBlendFunc ==
    /\ FontStep("f_blendfunc")
    /\ Checked("BlendFunc", "SRC_ALPHA",
               [gl EXCEPT !.blendFunc = <<"SRC_ALPHA", "ONE_MINUS_SRC_ALPHA">>],
               "f_bindtex")
    /\ FontFrame

FontBindTexture ==
    /\ FontStep("f_bindtex")
    /\ Checked("BindTexture", character.texture.id,
               [gl EXCEPT !.tex = character.texture.id], "f_bindbuf")
    /\ FontFrame

FontBindBuffer ==
    /\ FontStep("f_bindbuf")
    /\ Checked("BindBuffer", FontVbo, gl, "f_subdata")
    /\ FontFrame

FontBufferSubData ==
    /\ FontStep("f_subdata")
    /\ Checked("BufferSubData", vertices, gl, "f_unbindbuf")
    /\ FontFrame

FontUnbindBuffer ==
    /\ FontStep("f_unbindbuf")
    /\ Checked("BindBuffer", NoObject, gl, "f_draw")
    /\ FontFrame

FontDrawArrays ==
    /\ FontStep("f_draw")
    /\ Checked("DrawArrays", "TRIANGLES", gl, "f_advance")
    /\ FontFrame

FontAdvancePen ==
    /\ FontStep("f_advance")
    /\ pen' = AdvancePen(pen, text[idx], character, scale)
    /\ idx' = idx + 1
    /\ pc' = "f_loop"
    /\ UNCHANGED <<gl, cmds, op, result, uarg, usedProgram, glyphVars, text,
                   scale, loads, vertices, retChar, curChar, uniformVars, resourceVars>>

FontUnbindVao ==
    /\ FontStep("f_unbindvao")
    /\ Checked("BindVertexArray", NoObject, [gl EXCEPT !.vao = NoObject],
               "f_unbindtex")
    /\ FontFrame

FontUnbindTexture ==
    /\ FontStep("f_unbindtex")
    /\ Checked("BindTexture", 0, [gl EXCEPT !.tex = 0], "ret")
    /\ FontFrame

-----------------------------------------------------------------------------

(* Shader and ShaderProgram: compilation and linking *)

MaxObjects == 3         \* shader and program objects created

ShaderTypes == {"Vertex", "Fragment"}
\* a source text: one the compiler accepts, one it rejects
Sources == {"valid", "invalid"}

NoShaderArgs ==
    [n |-> 0, prog |-> 0, kinds |-> <<>>, sources |-> <<>>, shaders |-> <<>>,
     shader |-> 0, linkOk |-> FALSE]

\* the Err(String) of check_shader_error: the info log of the object
LogError(log) == [Ok EXCEPT !.tag = "Log", !.message = log]
\* .unwrap() of an Err: the thread panics, nothing is returned
Panic == [Ok EXCEPT !.tag = "panic"]

\* Faulty variant of check_shader_error: the status is not looked at.
check_shader_error_ignored(success, log) == Ok

\* check_shader_error: the status read by GetShaderiv / GetProgramiv decides
check_shader_error(success, log) ==
    IF success = 0 THEN LogError(log) ELSE Ok

ShaderOps == {"from_source", "from_shaders", "sprite_new"}
ShaderStep(at) == op \in ShaderOps /\ pc = at
ShaderFrame == UNCHANGED <<op, glyphVars, drawVars, curChar, uarg, usedProgram,
                           uniformVars, textures, gpuTex, cameraVars>>

\* gl!(func, args) where the caller decides what the result is used for: the
\* call, then GetError.  `must` : the API rejects the call as it is made.
GlCall(fn, arg, must) ==
    \E raise \in IF must THEN {INVALID_OPERATION} ELSE RaiseCodes :
        LET called == RawCall(gl, raise, gl)
        IN /\ gl' = [called EXCEPT !.err = NO_ERROR]
           /\ cmds' = Append(cmds, Cmd(fn, arg, called.err))
\* the code GetError returned in this step
LastErr == cmds'[Len(cmds')].err

NewShaderObject(kind) ==
    [kind |-> kind, log |-> "", source |-> "", compiled |-> FALSE]
NewProgramObject ==
    [log |-> "", attached |-> {}, linked |-> FALSE, linkedFrom |-> {}]

\* Shader::from_source returns r.  SpriteRenderer::new unwraps it and goes on
\* to the next embedded source, then to the program.
ShaderReturns(r) ==
    /\ shaderVals' = IF IsErr(r) THEN shaderVals
                     ELSE shaderVals \cup {sarg.shader}
    /\ IF op = "from_source"
       THEN pc' = "ret" /\ result' = r /\ sarg' = sarg
       ELSE IF IsErr(r)
            THEN pc' = "ret" /\ result' = Panic /\ sarg' = sarg
            ELSE /\ result' = result
                 /\ IF sarg.n < Len(sarg.kinds)
                    THEN /\ pc' = "sh_create"
                         /\ sarg' = [sarg EXCEPT
                                        !.n = @ + 1,
                                        !.shaders = Append(@, sarg.shader)]
                    ELSE /\ pc' = "pr_create"
                         /\ sarg' = [sarg EXCEPT
                                        !.n = 0,
                                        !.shaders = Append(@, sarg.shader)]

\* let id = gl!(CreateShader, kind.into())?;
ShaderCreate ==
    /\ ShaderStep("sh_create")
    /\ GlCall("CreateShader", sarg.kinds[sarg.n], FALSE)
    /\ IF LastErr = NO_ERROR
       THEN /\ shaderObjs' =
                   [k \in DOMAIN shaderObjs \cup {nextObjId} |->
                       IF k = nextObjId
                       THEN NewShaderObject(sarg.kinds[sarg.n])
                       ELSE shaderObjs[k]]
            /\ nextObjId' = nextObjId + 1
            /\ sarg' = [sarg EXCEPT !.shader = nextObjId]
            /\ pc' = "sh_source" /\ result' = result
            /\ shaderVals' = shaderVals
       ELSE /\ ShaderReturns(GlError(LastErr))
            /\ UNCHANGED <<shaderObjs, nextObjId>>
    /\ UNCHANGED <<progObjs, progVals>>
    /\ ShaderFrame

\* gl!(ShaderSource, id, ..); the result is dropped
ShaderSetSource ==
    /\ ShaderStep("sh_source")
    /\ GlCall("ShaderSource", sarg.shader, FALSE)
    /\ shaderObjs' = IF LastErr = NO_ERROR
                     THEN [shaderObjs EXCEPT ![sarg.shader].source =
                                                 sarg.sources[sarg.n]]
                     ELSE shaderObjs
    /\ pc' = "sh_compile" /\ result' = result
    /\ UNCHANGED <<progObjs, shaderVals, progVals, nextObjId, sarg>>
    /\ ShaderFrame

\* gl!(CompileShader, id); the result is dropped
ShaderCompile ==
    /\ ShaderStep("sh_compile")
    /\ GlCall("CompileShader", sarg.shader, FALSE)
    /\ shaderObjs' =
          IF LastErr = NO_ERROR
          THEN [shaderObjs EXCEPT
                   ![sarg.shader].compiled =
                       (shaderObjs[sarg.shader].source = "valid"),
                   ![sarg.shader].log =
                       IF shaderObjs[sarg.shader].source = "valid" THEN ""
                       ELSE "0:1: syntax error"]
          ELSE shaderObjs
    /\ pc' = "sh_status" /\ result' = result
    /\ UNCHANGED <<progObjs, shaderVals, progVals, nextObjId, sarg>>
    /\ ShaderFrame

\* check_shader_error(id, gl::COMPILE_STATUS, false)?; Ok(Shader { id, .. })
ShaderStatus ==
    /\ ShaderStep("sh_status")
    /\ cmds' = Append(cmds, Cmd("GetShaderiv", sarg.shader, NO_ERROR))
    /\ gl' = gl
    /\ ShaderReturns(check_shader_error(
                        IF shaderObjs[sarg.shader].compiled THEN 1 ELSE 0,
                        shaderObjs[sarg.shader].log))
    /\ UNCHANGED <<shaderObjs, progObjs, progVals, nextObjId>>
    /\ ShaderFrame

\* the linker accepts the attached shaders: a compiled vertex and a compiled
\* fragment shader whose interfaces match (linkOk)
Linkable(attached) ==
    /\ sarg.linkOk
    /\ \A s \in attached : shaderObjs[s].compiled
    /\ \A k \in ShaderTypes : \E s \in attached : shaderObjs[s].kind = k

\* ShaderProgram::from_shaders returns r.  SpriteRenderer::new unwraps it and
\* goes on to set up the quad.
ProgramReturns(r) ==
    /\ progVals' = IF IsErr(r) THEN progVals ELSE progVals \cup {sarg.prog}
    /\ IF op = "from_shaders"
       THEN pc' = "ret" /\ result' = r /\ sarg' = sarg
       ELSE IF IsErr(r)
            THEN pc' = "ret" /\ result' = Panic /\ sarg' = sarg
            ELSE /\ pc' = "sn_setup" /\ result' = result
                 /\ sarg' = [sarg EXCEPT !.n = 1]

\* let id = gl!(CreateProgram)?;
ProgramCreate ==
    /\ ShaderStep("pr_create")
    /\ GlCall("CreateProgram", 0, FALSE)
    /\ IF LastErr = NO_ERROR
       THEN /\ progObjs' =
                   [k \in DOMAIN progObjs \cup {nextObjId} |->
                       IF k = nextObjId THEN NewProgramObject ELSE progObjs[k]]
            /\ nextObjId' = nextObjId + 1
            /\ sarg' = [sarg EXCEPT !.prog = nextObjId, !.n = 1]
            /\ pc' = "pr_attach" /\ result' = result
            /\ progVals' = progVals
       ELSE /\ ProgramReturns(GlError(LastErr))
            /\ UNCHANGED <<progObjs, nextObjId>>
    /\ UNCHANGED <<shaderObjs, shaderVals>>
    /\ ShaderFrame

\* for shader in shaders { gl!(AttachShader, id, shader.id())?; }
\* attaching a shader that is attached already is an error of the API
ProgramAttach ==
    /\ ShaderStep("pr_attach")
    /\ sarg.n <= Len(sarg.shaders)
    /\ LET s == sarg.shaders[sarg.n] IN
       /\ GlCall("AttachShader", s, s \in progObjs[sarg.prog].attached)
       /\ IF LastErr = NO_ERROR
          THEN /\ progObjs' = [progObjs EXCEPT
                                  ![sarg.prog].attached = @ \cup {s}]
               /\ sarg' = [sarg EXCEPT !.n = @ + 1]
               /\ pc' = pc /\ result' = result
               /\ progVals' = progVals
          ELSE /\ ProgramReturns(GlError(LastErr))
               /\ progObjs' = progObjs
    /\ UNCHANGED <<shaderObjs, shaderVals, nextObjId>>
    /\ ShaderFrame

\* gl!(LinkProgram, id); the result is dropped
ProgramLink ==
    /\ ShaderStep("pr_attach")
    /\ sarg.n > Len(sarg.shaders)
    /\ GlCall("LinkProgram", sarg.prog, FALSE)
    /\ progObjs' =
          IF LastErr = NO_ERROR
          THEN LET from == progObjs[sarg.prog].attached IN
               [progObjs EXCEPT
                   ![sarg.prog].linked = Linkable(from),
                   ![sarg.prog].linkedFrom = from,
                   ![sarg.prog].log =
                       IF Linkable(from) THEN "" ELSE "error: link failed"]
          ELSE progObjs
    /\ pc' = "pr_status" /\ result' = result
    /\ UNCHANGED <<shaderObjs, shaderVals, progVals, nextObjId, sarg>>
    /\ ShaderFrame

\* check_shader_error(id, gl::LINK_STATUS, true)?;
ProgramStatus ==
    /\ ShaderStep("pr_status")
    /\ cmds' = Append(cmds, Cmd("GetProgramiv", sarg.prog, NO_ERROR))
    /\ gl' = gl
    /\ LET r == check_shader_error(
                    IF progObjs[sarg.prog].linked THEN 1 ELSE 0,
                    progObjs[sarg.prog].log)
       IN IF IsErr(r)
          THEN ProgramReturns(r)
          ELSE /\ pc' = "pr_detach" /\ result' = result
               /\ sarg' = [sarg EXCEPT !.n = 1]
               /\ progVals' = progVals
    /\ UNCHANGED <<shaderObjs, progObjs, shaderVals, nextObjId>>
    /\ ShaderFrame

\* for shader in shaders { gl!(DetachShader, id, shader.id())?; }
\* Ok(ShaderProgram { id })
ProgramDetach ==
    /\ ShaderStep("pr_detach")
    /\ LET s == sarg.shaders[sarg.n] IN
       /\ GlCall("DetachShader", s, s \notin progObjs[sarg.prog].attached)
       /\ IF LastErr = NO_ERROR
          THEN /\ progObjs' = [progObjs EXCEPT
                                  ![sarg.prog].attached = @ \ {s}]
               /\ IF sarg.n < Len(sarg.shaders)
                  THEN /\ sarg' = [sarg EXCEPT !.n = @ + 1]
                       /\ pc' = pc /\ result' = result
                       /\ progVals' = progVals
                  ELSE ProgramReturns(Ok)
          ELSE /\ ProgramReturns(GlError(LastErr))
               /\ progObjs' = progObjs
    /\ UNCHANGED <<shaderObjs, shaderVals, nextObjId>>
    /\ ShaderFrame

\* the checked calls of SpriteRenderer::new after the program, each with `?`
SetupCalls ==
    <<"GenVertexArrays", "BindVertexArray", "GenBuffers", "BindBuffer",
      "BufferData", "VertexAttribPointer", "EnableVertexAttribArray",
      "VertexAttribPointer", "EnableVertexAttribArray">>

\* gl!(..)?; for each of them, then Ok(Self { shader, quad_vao, .. })
SpriteNewSetup ==
    /\ ShaderStep("sn_setup")
    /\ GlCall(SetupCalls[sarg.n], sarg.n, FALSE)
    /\ IF LastErr # NO_ERROR
       THEN pc' = "ret" /\ result' = GlError(LastErr) /\ sarg' = sarg
       ELSE IF sarg.n < Len(SetupCalls)
            THEN pc' = pc /\ result' = result
                 /\ sarg' = [sarg EXCEPT !.n = @ + 1]
            ELSE pc' = "ret" /\ result' = Ok /\ sarg' = sarg
    /\ UNCHANGED <<shaderObjs, progObjs, shaderVals, progVals, nextObjId>>
    /\ ShaderFrame

ShaderBeginFrame == UNCHANGED <<textures, gpuTex, shaderObjs, progObjs,
                                shaderVals, progVals, nextObjId, cameraVars>>

\* Shader::from_source(kind, source) called by the application
FromSourceBegin ==
    /\ nextObjId <= MaxObjects
    /\ \E k \in ShaderTypes, s \in Sources :
          /\ BeginCall("from_source", "sh_create", NoArgs)
          /\ sarg' = [NoShaderArgs EXCEPT !.kinds = <<k>>, !.sources = <<s>>,
                                          !.n = 1]
    /\ ShaderBeginFrame

\* ShaderProgram::from_shaders(&[..]) called with Shader values it holds
FromShadersBegin ==
    /\ nextObjId <= MaxObjects
    /\ \E shaders \in SeqsUpTo(shaderVals, 2), linkOk \in BOOLEAN :
          /\ BeginCall("from_shaders", "pr_create", NoArgs)
          /\ sarg' = [NoShaderArgs EXCEPT !.shaders = shaders,
                                          !.linkOk = linkOk]
    /\ ShaderBeginFrame

\* SpriteRenderer::new(): the two embedded sources, as the compiler of the
\* context takes them
SpriteNewBegin ==
    /\ nextObjId + 2 <= MaxObjects
    /\ \E vert \in Sources, frag \in Sources, linkOk \in BOOLEAN :
          /\ BeginCall("sprite_new", "sh_create", NoArgs)
          /\ sarg' = [NoShaderArgs EXCEPT !.kinds = <<"Vertex", "Fragment">>,
                                          !.sources = <<vert, frag>>,
                                          !.n = 1, !.linkOk = linkOk]
    /\ ShaderBeginFrame

(* Texture *)

REPEAT == 10497
CLAMP_TO_EDGE == 33071
NEAREST == 9728
LINEAR == 9729
NEAREST_MIPMAP_LINEAR == 9986
LINEAR_MIPMAP_LINEAR == 9987
INVALID_ENUM == 1280

ParamNames == {"WRAP_S", "WRAP_T", "MIN_FILTER", "MAG_FILTER"}

\* gl::TexParameteri accepts the value for the parameter
ValidParam(pname, v) ==
    CASE pname \in {"WRAP_S", "WRAP_T"} -> v \in {REPEAT, CLAMP_TO_EDGE}
      [] pname = "MIN_FILTER" -> v \in {NEAREST, LINEAR, NEAREST_MIPMAP_LINEAR,
                                        LINEAR_MIPMAP_LINEAR}
      [] pname = "MAG_FILTER" -> v \in {NEAREST, LINEAR}

\* a texture object as gl::GenTextures and the first bind make it
NewTexObject ==
    [params |-> [p \in ParamNames |->
                    CASE p = "MIN_FILTER" -> NEAREST_MIPMAP_LINEAR
                      [] p = "MAG_FILTER" -> LINEAR
                      [] OTHER -> REPEAT],
     mipmaps |-> FALSE]

\* The raw calls of texture.rs act on a context: the bindings and error flag
\* (gl) and the texture objects (gpu).  None of them is followed by GetError.
Ctx(g, gpu) == [gl |-> g, gpu |-> gpu]

GenTextures(ctx, id) ==
    [ctx EXCEPT !.gpu = [k \in DOMAIN ctx.gpu \cup {id} |->
                            IF k = id THEN NewTexObject ELSE ctx.gpu[k]]]

BindTexture(ctx, id) == [ctx EXCEPT !.gl.tex = id]

\* a value the parameter does not take raises INVALID_ENUM and sets nothing
TexParameteri(ctx, pname, v) ==
    IF ValidParam(pname, v)
    THEN IF ctx.gl.tex \in DOMAIN ctx.gpu
         THEN [ctx EXCEPT !.gpu[ctx.gl.tex].params[pname] = v]
         ELSE ctx
    ELSE [ctx EXCEPT !.gl.err = IF @ = NO_ERROR THEN INVALID_ENUM ELSE @]

GenerateMipmap(ctx) ==
    IF ctx.gl.tex \in DOMAIN ctx.gpu
    THEN [ctx EXCEPT !.gpu[ctx.gl.tex].mipmaps = TRUE]
    ELSE ctx

\* the struct Texture
Texture(id, width, height, internal_format, image_format, wrap_s, wrap_t, filter_min, filter_max) ==
    [width |-> width, id |-> id, height |-> height,
     internal_format |-> internal_format, image_format |-> image_format,
     wrap_s |-> wrap_s, wrap_t |-> wrap_t,
     filter_min |-> filter_min, filter_max |-> filter_max]

\* A method of Texture called by the application runs to its end and
\* returns r to it.
TextureReturns(o, calls, ctx, texs, r) ==
    /\ pc = "ret"
    /\ op' = o
    /\ pc' = "ret"
    /\ result' = r
    /\ cmds' = calls
    /\ gl' = ctx.gl
    /\ gpuTex' = ctx.gpu
    /\ textures' = texs
    /\ usedProgram' = <<>>
    /\ loads' = <<>>
    /\ vertices' = <<>>
    /\ retChar' = <<>>
    /\ text' = NoArgs.text
    /\ pen' = NoArgs.pen
    /\ scale' = NoArgs.scale
    /\ idx' = NoArgs.idx
    /\ curChar' = NoArgs.c
    /\ uarg' = NoArgs.uarg
    /\ UNCHANGED <<fontState, glyphs, rasterized, firstRet, uniformVars,
                   shaderVars, cameraVars>>

\* A method that returns nothing (or the Texture) and no error
TextureCall(o, calls, ctx, texs) == TextureReturns(o, calls, ctx, texs, Ok)

MaxTextures == 2        \* textures the application creates

\* arguments of Texture::new: an RGBA image with the defaults, and a glyph
\* bitmap as Character::try_from passes it
NewArgs ==
    {[width |-> 1, height |-> 1, format |-> "RGBA", wrap |-> REPEAT],
     [width |-> 2, height |-> 3, format |-> "RED", wrap |-> CLAMP_TO_EDGE]}

\* values handed to the mutators; the last of each is no value of the parameter
WrapArgs == {CLAMP_TO_EDGE, LINEAR}
FilterArgs == {NEAREST, REPEAT}

\* the texture whose sampling the application changes: the one it made first;
\* a texture made later stands for every other texture of the program
MutableTextures == {id \in DOMAIN textures : id = SpriteTextureId + 1}

\* Texture::new
Texture_new(a) ==
    LET id == nextTexId
        c1 == BindTexture(GenTextures(Ctx(gl, gpuTex), id), id)
        c2 == TexParameteri(c1, "WRAP_S", a.wrap)
        c3 == TexParameteri(c2, "WRAP_T", a.wrap)
        c4 == TexParameteri(c3, "MIN_FILTER", LINEAR)
        c5 == TexParameteri(c4, "MAG_FILTER", LINEAR)
        t == Texture(id, a.width, a.height, a.format, a.format, a.wrap, a.wrap,
                     LINEAR, LINEAR)
    IN /\ TextureCall("Texture::new",
                      <<Cmd("GenTextures", id, NO_ERROR),
                        Cmd("BindTexture", id, NO_ERROR),
                        Cmd("TexImage2D", id, NO_ERROR),
                        Cmd("TexParameteri", "WRAP_S", NO_ERROR),
                        Cmd("TexParameteri", "WRAP_T", NO_ERROR),
                        Cmd("TexParameteri", "MIN_FILTER", NO_ERROR),
                        Cmd("TexParameteri", "MAG_FILTER", NO_ERROR),
                        Cmd("BindTexture", 0, NO_ERROR)>>,
                      BindTexture(c5, 0),
                      [k \in DOMAIN textures \cup {id} |->
                          IF k = id THEN t ELSE textures[k]])
       /\ nextTexId' = nextTexId + 1

\* image::open(path)? of from_file: the dimensions of the decoded image, or
\* none when the file cannot be read or decoded
NoImage == <<>>
Images == {NoImage, <<2, 1>>}
ImageError == [Ok EXCEPT !.tag = "ImageError"]

\* Texture::from_file
Texture_from_file(image) ==
    LET id == nextTexId
        c1 == BindTexture(GenTextures(Ctx(gl, gpuTex), id), id)
        c2 == GenerateMipmap(c1)
        c3 == TexParameteri(c2, "WRAP_S", REPEAT)
        c4 == TexParameteri(c3, "WRAP_T", REPEAT)
        c5 == TexParameteri(c4, "MIN_FILTER", LINEAR_MIPMAP_LINEAR)
        c6 == TexParameteri(c5, "MAG_FILTER", LINEAR)
        t == Texture(id, image[1], image[2], "RGBA", "RGBA", REPEAT, REPEAT,
                     LINEAR, LINEAR)
    IN IF image = NoImage
       THEN /\ TextureReturns("Texture::from_file", <<>>, Ctx(gl, gpuTex),
                              textures, ImageError)
            /\ nextTexId' = nextTexId
       ELSE /\ TextureCall("Texture::from_file",
                           <<Cmd("GenTextures", id, NO_ERROR),
                             Cmd("BindTexture", id, NO_ERROR),
                             Cmd("TexImage2D", id, NO_ERROR),
                             Cmd("GenerateMipmap", id, NO_ERROR),
                             Cmd("TexParameteri", "WRAP_S", NO_ERROR),
                             Cmd("TexParameteri", "WRAP_T", NO_ERROR),
                             Cmd("TexParameteri", "MIN_FILTER", NO_ERROR),
                             Cmd("TexParameteri", "MAG_FILTER", NO_ERROR),
                             Cmd("BindTexture", 0, NO_ERROR)>>,
                           BindTexture(c6, 0),
                           [k \in DOMAIN textures \cup {id} |->
                               IF k = id THEN t ELSE textures[k]])
            /\ nextTexId' = nextTexId + 1

\* the calls of a mutator: the bind, then one TexParameteri per field
MutatorCalls(id, pnames) ==
    <<Cmd("BindTexture", id, NO_ERROR)>> \o
    [i \in 1 .. Len(pnames) |-> Cmd("TexParameteri", pnames[i], NO_ERROR)]

set_wrap_s(id, wrap_s) ==
    /\ TextureCall("set_wrap_s", MutatorCalls(id, <<"WRAP_S">>),
                   TexParameteri(BindTexture(Ctx(gl, gpuTex), id),
                                 "WRAP_S", wrap_s),
                   [textures EXCEPT ![id].wrap_s = wrap_s])
    /\ nextTexId' = nextTexId

set_wrap_t(id, wrap_t) ==
    /\ TextureCall("set_wrap_t", MutatorCalls(id, <<"WRAP_T">>),
                   TexParameteri(BindTexture(Ctx(gl, gpuTex), id),
                                 "WRAP_T", wrap_t),
                   [textures EXCEPT ![id].wrap_t = wrap_t])
    /\ nextTexId' = nextTexId

set_filter_min(id, filter_min) ==
    /\ TextureCall("set_filter_min", MutatorCalls(id, <<"MIN_FILTER">>),
                   TexParameteri(BindTexture(Ctx(gl, gpuTex), id),
                                 "MIN_FILTER", filter_min),
                   [textures EXCEPT ![id].filter_min = filter_min])
    /\ nextTexId' = nextTexId

set_filter_max(id, filter_max) ==
    /\ TextureCall("set_filter_max", MutatorCalls(id, <<"MAG_FILTER">>),
                   TexParameteri(BindTexture(Ctx(gl, gpuTex), id),
                                 "MAG_FILTER", filter_max),
                   [textures EXCEPT ![id].filter_max = filter_max])
    /\ nextTexId' = nextTexId

set_filter(id, filter_min, filter_max) ==
    /\ TextureCall("set_filter", MutatorCalls(id, <<"MIN_FILTER", "MAG_FILTER">>),
                   TexParameteri(
                       TexParameteri(BindTexture(Ctx(gl, gpuTex), id),
                                     "MIN_FILTER", filter_min),
                       "MAG_FILTER", filter_max),
                   [textures EXCEPT ![id].filter_min = filter_min,
                                    ![id].filter_max = filter_max])
    /\ nextTexId' = nextTexId

\* Faulty variant of set_wrap: the T field is given the S value.
set_wrap_copied(id, wrap_s, wrap_t) ==
    /\ TextureCall("set_wrap", MutatorCalls(id, <<"WRAP_S", "WRAP_T">>),
                   TexParameteri(
                       TexParameteri(BindTexture(Ctx(gl, gpuTex), id),
                                     "WRAP_S", wrap_s),
                       "WRAP_T", wrap_t),
                   [textures EXCEPT ![id].wrap_s = wrap_s,
                                    ![id].wrap_t = wrap_s])
    /\ nextTexId' = nextTexId

set_wrap(id, wrap_s, wrap_t) ==
    /\ TextureCall("set_wrap", MutatorCalls(id, <<"WRAP_S", "WRAP_T">>),
                   TexParameteri(
                       TexParameteri(BindTexture(Ctx(gl, gpuTex), id),
                                     "WRAP_S", wrap_s),
                       "WRAP_T", wrap_t),
                   [textures EXCEPT ![id].wrap_s = wrap_s,
                                    ![id].wrap_t = wrap_t])
    /\ nextTexId' = nextTexId

TextureNew ==
    /\ Cardinality(DOMAIN textures) < MaxTextures
    /\ \E a \in NewArgs : Texture_new(a)

TextureFromFile ==
    /\ Cardinality(DOMAIN textures) < MaxTextures
    /\ \E image \in Images : Texture_from_file(image)

TextureBind ==
    \E id \in DOMAIN textures :
        /\ TextureCall("bind", <<Cmd("BindTexture", id, NO_ERROR)>>,
                       BindTexture(Ctx(gl, gpuTex), id), textures)
        /\ nextTexId' = nextTexId

TextureGenerateMipmaps ==
    \E id \in DOMAIN textures :
        /\ TextureCall("generate_mipmaps",
                       <<Cmd("BindTexture", id, NO_ERROR),
                         Cmd("GenerateMipmap", id, NO_ERROR)>>,
                       GenerateMipmap(BindTexture(Ctx(gl, gpuTex), id)),
                       textures)
        /\ nextTexId' = nextTexId

TextureSetWrapS == \E id \in MutableTextures, v \in WrapArgs : set_wrap_s(id, v)
TextureSetWrapT == \E id \in MutableTextures, v \in WrapArgs : set_wrap_t(id, v)
TextureSetFilterMin ==
    \E id \in MutableTextures, v \in FilterArgs : set_filter_min(id, v)
TextureSetFilterMax ==
    \E id \in MutableTextures, v \in FilterArgs : set_filter_max(id, v)
TextureSetFilter ==
    \E id \in MutableTextures, v \in FilterArgs, w \in FilterArgs :
        set_filter(id, v, w)
TextureSetWrap ==
    \E id \in MutableTextures, v \in WrapArgs, w \in WrapArgs :
        set_wrap(id, v, w)

-----------------------------------------------------------------------------
(* Matrix4<f32>, Camera and the transform of SpriteRenderer::draw            *)

\* A Matrix4 with rational entries: the integer entries m[row][column] over
\* the common denominator den, in lowest terms with den > 0.  Halves of
\* integers and the entries 2/width, 2/height of the projection are exact.
Abs(n) == IF n < 0 THEN -n ELSE n
RECURSIVE GCD(_, _)
GCD(a, b) == IF b = 0 THEN Abs(a) ELSE GCD(b, a % Abs(b))
RowGCD(r) == GCD(GCD(r[1], r[2]), GCD(r[3], r[4]))
DivRow(r, d) == <<r[1] \div d, r[2] \div d, r[3] \div d, r[4] \div d>>
Lowest(den, rows, d) ==
    [den |-> den \div d,
     m |-> <<DivRow(rows[1], d), DivRow(rows[2], d),
             DivRow(rows[3], d), DivRow(rows[4], d)>>]
Matrix4(den, rows) ==
    Lowest(den, rows,
           (IF den < 0 THEN -1 ELSE 1)
           * GCD(den, GCD(GCD(RowGCD(rows[1]), RowGCD(rows[2])),
                          GCD(RowGCD(rows[3]), RowGCD(rows[4])))))

\* Matrix4::identity()
Identity ==
    Matrix4(1, <<<<1, 0, 0, 0>>, <<0, 1, 0, 0>>, <<0, 0, 1, 0>>, <<0, 0, 0, 1>>>>)

\* Matrix4::new_translation(&Vector3::new(x, y, z)), the vector being
\* <<x, y, z>> / den
new_translation(v, den) ==
    Matrix4(den, <<<<den, 0, 0, v[1]>>, <<0, den, 0, v[2]>>,
                   <<0, 0, den, v[3]>>, <<0, 0, 0, den>>>>)

\* Matrix4::new_nonuniform_scaling(&Vector3::new(x, y, z))
new_nonuniform_scaling(v) ==
    Matrix4(1, <<<<v[1], 0, 0, 0>>, <<0, v[2], 0, 0>>,
                 <<0, 0, v[3], 0>>, <<0, 0, 0, 1>>>>)

\* Matrix4::new_rotation(&Vector3::z() * rotation), for a rotation of q
\* quarter turns (the angles whose sine and cosine are integers)
QuarterCos(q) == <<1, 0, -1, 0>>[(q % 4) + 1]
QuarterSin(q) == <<0, 1, 0, -1>>[(q % 4) + 1]
new_rotation(q) ==
    Matrix4(1, <<<<QuarterCos(q), -QuarterSin(q), 0, 0>>,
                 <<QuarterSin(q), QuarterCos(q), 0, 0>>,
                 <<0, 0, 1, 0>>, <<0, 0, 0, 1>>>>)

\* a * b of two Matrix4
Dot(a, b, i, j) ==
    a.m[i][1] * b.m[1][j] + a.m[i][2] * b.m[2][j]
  + a.m[i][3] * b.m[3][j] + a.m[i][4] * b.m[4][j]
MulRow(a, b, i) == <<Dot(a, b, i, 1), Dot(a, b, i, 2), Dot(a, b, i, 3), Dot(a, b, i, 4)>>
Mul(a, b) ==
    Matrix4(a.den * b.den,
            <<MulRow(a, b, 1), MulRow(a, b, 2), MulRow(a, b, 3), MulRow(a, b, 4)>>)

\* Orthographic3::new(left, right, bottom, top, znear, zfar).as_matrix()
Orthographic3_new(left, right, bottom, top, znear, zfar) ==
    LET w == right - left
        h == top - bottom
        d == zfar - znear
    IN  Matrix4(w * h * d,
                <<<<2 * h * d, 0, 0, -(right + left) * h * d>>,
                  <<0, 2 * w * d, 0, -(top + bottom) * w * d>>,
                  <<0, 0, -2 * w * h, -(zfar + znear) * w * h>>,
                  <<0, 0, 0, w * h * d>>>>)

NoCamera == [screen |-> <<>>]
NoMatrix == [den |-> 0]
NoTransformArgs == [position |-> <<>>]

\* Camera::new(width, height)
Camera_new(width, height) ==
    [screen |-> <<width, height>>,
     position |-> <<0, 0>>,
     projection |-> Orthographic3_new(0, width, height, 0, -1, 1),
     zoom |-> <<1, 1>>,
     rotation |-> 0]

\* Faulty variant of view: the translation back by the position, after the
\* rotation, is left out.
view_not_moved_back(c) ==
    LET centre == new_translation(<<c.screen[1], c.screen[2], 0>>, 2)
        negated == new_translation(<<-c.position[1], -c.position[2], 0>>, 1)
        v4 == Mul(Mul(Mul(centre, negated), negated), new_rotation(c.rotation))
        v7 == Mul(Mul(v4, centre),
                  new_nonuniform_scaling(<<c.zoom[1], c.zoom[2], 1>>))
    IN  Mul(v7, new_translation(<<-c.screen[1], -c.screen[2], 0>>, 2))

\* Camera::view(&self)
view(c) ==
    LET centre == new_translation(<<c.screen[1], c.screen[2], 0>>, 2)
        negated == new_translation(<<-c.position[1], -c.position[2], 0>>, 1)
        v1 == Mul(Identity, centre)
        v2 == Mul(v1, negated)
        v3 == Mul(v2, negated)
        v4 == Mul(v3, new_rotation(c.rotation))
        v5 == Mul(v4, new_translation(<<c.position[1], c.position[2], 0>>, 1))
        v6 == Mul(v5, centre)
        v7 == Mul(v6, new_nonuniform_scaling(<<c.zoom[1], c.zoom[2], 1>>))
    IN  Mul(v7, new_translation(<<-c.screen[1], -c.screen[2], 0>>, 2))

\* Camera::projection(&self)
projection(c) == c.projection

\* Camera::set_position, set_zoom, set_rotation
set_position(c, position) == [c EXCEPT !.position = position]
set_zoom(c, zoom) == [c EXCEPT !.zoom = zoom]
set_rotation(c, rotation) == [c EXCEPT !.rotation = rotation]

\* Faulty variant of set_screen: the projection is not recomputed.
set_screen_stale(c, width, height) == [c EXCEPT !.screen = <<width, height>>]

\* Camera::set_screen
set_screen(c, width, height) ==
    [c EXCEPT !.screen = <<width, height>>,
              !.projection = Orthographic3_new(0, width, height, 0, -1, 1)]

\* Faulty variant of the model matrix: the pivot is not moved back.
model_matrix_uncentred(position, size, rotation) ==
    Mul(Mul(Mul(new_translation(position, 1),
                new_translation(<<size[1], size[2], 0>>, 2)),
            new_rotation(rotation)),
        new_nonuniform_scaling(<<size[1], size[2], 1>>))

\* SpriteRenderer::draw: the local `model`
model_matrix(position, size, rotation) ==
    Mul(Mul(Mul(Mul(new_translation(position, 1),
                    new_translation(<<size[1], size[2], 0>>, 2)),
                new_rotation(rotation)),
            new_translation(<<-size[1], -size[2], 0>>, 2)),
        new_nonuniform_scaling(<<size[1], size[2], 1>>))

\* The values the application passes
ScreenSizes == {<<8, 6>>, <<3, 4>>}
CameraPositions == {<<0, 0>>, <<3, -5>>}
Zooms == {<<1, 1>>, <<2, 3>>}
Rotations == {0, 1}
SpritePositions == {<<0, 0, 0>>, <<2, -3, 1>>}
SpriteSizes == {<<1, 1>>, <<3, 2>>}

CameraOps == {"camera_new", "set_position", "set_zoom", "set_rotation",
              "set_screen", "view", "sprite_transform"}

\* A call on the Camera, or the matrix computation of draw: it makes no API
\* call and returns at once.
CameraCall(o) ==
    /\ pc = "ret"
    /\ op' = o
    /\ UNCHANGED <<gl, cmds, pc, result, glyphVars, drawVars, curChar, uarg,
                   usedProgram, uniformVars, textures, gpuTex, shaderVars>>

CameraNew ==
    /\ CameraCall("camera_new")
    /\ \E s \in ScreenSizes : camera' = Camera_new(s[1], s[2])
    /\ UNCHANGED <<viewOut, targ, transform>>

CameraSetPosition ==
    /\ camera # NoCamera
    /\ CameraCall("set_position")
    /\ \E p \in CameraPositions : camera' = set_position(camera, p)
    /\ UNCHANGED <<viewOut, targ, transform>>

CameraSetZoom ==
    /\ camera # NoCamera
    /\ CameraCall("set_zoom")
    /\ \E z \in Zooms : camera' = set_zoom(camera, z)
    /\ UNCHANGED <<viewOut, targ, transform>>

CameraSetRotation ==
    /\ camera # NoCamera
    /\ CameraCall("set_rotation")
    /\ \E r \in Rotations : camera' = set_rotation(camera, r)
    /\ UNCHANGED <<viewOut, targ, transform>>

CameraSetScreen ==
    /\ camera # NoCamera
    /\ CameraCall("set_screen")
    /\ \E s \in ScreenSizes : camera' = set_screen(camera, s[1], s[2])
    /\ UNCHANGED <<viewOut, targ, transform>>

CameraView ==
    /\ camera # NoCamera
    /\ CameraCall("view")
    /\ viewOut' = view(camera)
    /\ UNCHANGED <<camera, targ, transform>>

\* SpriteRenderer::draw, lines 101-108: model and transform, from the
\* camera's projection and either the identity or a matrix view() returned
SpriteTransform ==
    /\ camera # NoCamera
    /\ CameraCall("sprite_transform")
    /\ \E v \in {Identity} \cup ({viewOut} \ {NoMatrix}),
          p \in SpritePositions, s \in SpriteSizes, r \in Rotations :
          /\ targ' = [position |-> p, projection |-> projection(camera),
                      rotation |-> r, view |-> v, size |-> s]
          /\ transform' =
                [transform |-> Mul(Mul(projection(camera), v),
                                   model_matrix(p, s, r)),
                 model |-> model_matrix(p, s, r)]
    /\ UNCHANGED <<camera, viewOut>>

Init ==
    /\ gl = InitGl
    /\ cmds = <<>>
    /\ op = "none"
    /\ pc = "ret"
    /\ result = Ok
    /\ missing \in MissingChoices
    /\ queried = {}
    /\ uarg = [name |-> "transform", prog |-> SpriteShader, kind |-> "1f"]
    /\ fontState = "none"
    /\ glyphs = <<>>
    /\ rasterized = {}
    /\ firstRet = <<>>
    /\ retChar = <<>>
    /\ nextTexId = SpriteTextureId + 1
    /\ text = <<>>
    /\ idx = 0
    /\ pen = <<0, 0>>
    /\ scale = 1
    /\ curChar = 0
    /\ loads = <<>>
    /\ vertices = <<>>
    /\ usedProgram = <<>>
    /\ textures = <<>>
    /\ gpuTex = <<>>
    /\ shaderObjs = <<>>
    /\ progObjs = <<>>
    /\ shaderVals = {}
    /\ progVals = {}
    /\ nextObjId = 1
    /\ sarg = NoShaderArgs
    /\ camera = NoCamera
    /\ viewOut = NoMatrix
    /\ targ = NoTransformArgs
    /\ transform = NoMatrix

NextSprite ==
    \/ SetUniformBegin \/ SetUniformUpload
    \/ SpriteDrawBegin \/ SpriteEnableBlend \/ SpriteBlendFunc
    \/ SpriteUseProgram \/ SpriteBindVao \/ SpriteActiveTexture
    \/ SpriteBindTexture \/ SpriteSetTransform \/ SpriteSetColor
    \/ SpriteDrawArrays \/ SpriteUnbindVao \/ SpriteDisableBlend

SpecSprite == Init /\ [][NextSprite]_vars

NextTexture ==
    \/ TextureNew \/ TextureFromFile \/ TextureBind \/ TextureGenerateMipmaps
    \/ TextureSetWrapS \/ TextureSetWrapT
    \/ TextureSetFilterMin \/ TextureSetFilterMax
    \/ TextureSetFilter \/ TextureSetWrap

\* the operations on resources set no uniform: every declared uniform is active
InitResources == Init /\ missing = NoneMissing

SpecTexture == InitResources /\ [][NextTexture]_vars

NextShader ==
    \/ FromSourceBegin \/ FromShadersBegin \/ SpriteNewBegin
    \/ ShaderCreate \/ ShaderSetSource \/ ShaderCompile \/ ShaderStatus
    \/ ProgramCreate \/ ProgramAttach \/ ProgramLink \/ ProgramStatus
    \/ ProgramDetach \/ SpriteNewSetup

SpecShader == InitResources /\ [][NextShader]_vars

NextCamera ==
    \/ CameraNew
    \/ CameraSetPosition
    \/ CameraSetZoom
    \/ CameraSetRotation
    \/ CameraSetScreen
    \/ CameraView

SpecCamera == InitResources /\ [][NextCamera]_vars

NextTransform ==
    \/ CameraNew
    \/ CameraSetPosition
    \/ CameraView
    \/ SpriteTransform

SpecTransform == InitResources /\ [][NextTransform]_vars

NextFont ==
    \/ LoadFontBegin \/ LoadFontNewFace \/ LoadFontSetPixelSizes
    \/ LoadDefaultGlyphs
    \/ GlyphPixelStore \/ GlyphLoadChar \/ GlyphTryFrom
    \/ LoadGlyphBegin \/ LoadGlyphCall
    \/ FontDrawBegin \/ FontUseProgram \/ FontSetColor \/ FontSetTransform
    \/ FontActiveTexture \/ FontBindVao \/ FontNextChar \/ FontEnableBlend
    \/ FontBlendFunc \/ FontBindTexture \/ FontBindBuffer
    \/ FontBufferSubData \/ FontUnbindBuffer \/ FontDrawArrays
    \/ FontAdvancePen \/ FontUnbindVao \/ FontUnbindTexture

\* the sprite program takes no part in the Font operations
InitFont == Init /\ missing[1] # SpriteShader

SpecFont == InitFont /\ [][NextFont]_vars

-----------------------------------------------------------------------------
(* Properties of the glyph cache: Font::load_glyph, Font::new                *)

FirstGlyphTexId == SpriteTextureId + 1

\* load_glyph(curChar) has just returned Ok(retChar) to its caller
GlyphJustReturned ==
    \/ op = "load_glyph" /\ pc = "ret" /\ result = Ok
    \/ op = "font_draw" /\ pc = "f_enable"
    \/ op = "load_font" /\ pc = "lf_loop" /\ idx = curChar + 1

\* C1 as stated: each character is rasterized at most once over the lifetime
\* of the Font, that is, face.load_char is never about to be called for a
\* character it was called for before.
C1_RasterizedAtMostOnce ==
    pc = "g_loadchar" => curChar \notin rasterized

\* C1, amended: face.load_char is called for a character only while the cache
\* does not hold it, every insertion adds a new key (so a character is
\* rasterized into the cache at most once, and rasterized again only after a
\* load of it that failed and cached nothing), and a load_glyph of a cached
\* character returns the cached Character, whose bearing and advance are those
\* the first load returned.
C1_RasterizedOnlyWhileUncached ==
    /\ pc = "g_loadchar" => curChar \notin DOMAIN glyphs
    /\ DOMAIN glyphs \subseteq rasterized
    /\ Cardinality(DOMAIN glyphs) = nextTexId - FirstGlyphTexId
    /\ (GlyphJustReturned /\ curChar \in DrawChars) =>
          /\ retChar[1] = glyphs[curChar]
          /\ retChar[1].bearing = firstRet[curChar].bearing
          /\ retChar[1].advance = firstRet[curChar].advance

\* a load_glyph of a character that a draw loaded lazily before: it returned
\* the cached Character and called nothing
C1_Witness ==
    /\ op = "load_glyph" /\ pc = "ret" /\ result = Ok
    /\ curChar = 200 /\ curChar \in rasterized
    /\ cmds = <<>>
    /\ retChar = <<firstRet[curChar]>>

\* C2: the glyph cache is monotonic: over every step a key of the cache stays
\* a key and stays mapped to the same Character.
C2_CacheMonotonic ==
    [][\A c \in DOMAIN glyphs :
          c \in DOMAIN glyphs' /\ glyphs'[c] = glyphs[c]]_vars

\* a draw has added the character outside the default range to the full cache
C2_Witness ==
    /\ op = "font_draw" /\ pc = "ret" /\ result = Ok
    /\ fontState = "live"
    /\ Cardinality(DOMAIN glyphs) = NumDefaultGlyphs + 1
    /\ 200 \in DOMAIN glyphs

\* C3: load_font returns a Font only with all 128 default characters
\* rasterized and cached; when a load fails the later characters are not
\* loaded and the call returns an error and no Font.
C3_LoadFontAllOrNothing ==
    /\ fontState = "live" =>
          /\ DefaultChars \subseteq DOMAIN glyphs
          /\ DefaultChars \subseteq rasterized
    /\ (op = "load_font" /\ pc = "ret") =>
          /\ result = Ok <=> fontState = "live"
          /\ IsErr(result) =>
                /\ fontState \in {"none", "dropped"}
                /\ \A c \in DefaultChars :
                      c > idx => c \notin DOMAIN glyphs /\ c \notin rasterized
                /\ idx \notin DOMAIN glyphs

\* the load of 'A' failed after 65 characters were cached: no Font
C3_Witness ==
    /\ op = "load_font" /\ pc = "ret" /\ IsErr(result)
    /\ idx = 65 /\ fontState = "dropped"
    /\ Cardinality(DOMAIN glyphs) = 65

-----------------------------------------------------------------------------
(* Properties of FontRenderer::draw                                          *)

DrawPositions == {i \in 1 .. Len(cmds) : cmds[i].fn = "DrawArrays"}
\* the position in the log of the k-th DrawArrays
KthDraw(k) ==
    CHOOSE i \in DrawPositions :
        Cardinality({j \in DrawPositions : j <= i}) = k

\* C4: a successful draw of n characters does n glyph loads, in string order,
\* and n DrawArrays of 6 vertices, the k-th one after the bind of the k-th
\* character's glyph texture and the buffer update; none for the empty string.
C4_OneLoadAndDrawPerChar ==
    (op = "font_draw" /\ pc = "ret" /\ result = Ok) =>
        /\ loads = text
        /\ Cardinality(DrawPositions) = Len(text)
        /\ \A k \in 1 .. Len(text) :
              LET d == KthDraw(k) IN
              /\ d > 4
              /\ cmds[d - 4].fn = "BindTexture"
              /\ cmds[d - 4].arg = glyphs[text[k]].texture.id
              /\ cmds[d - 2].fn = "BufferSubData"
              /\ \A j \in (d - 3) .. (d - 1) :
                    cmds[j].fn \notin {"BindTexture", "DrawArrays"}
              /\ k > 1 => KthDraw(k - 1) < d - 4

\* a successful draw of two different characters
C4_Witness ==
    /\ op = "font_draw" /\ pc = "ret" /\ result = Ok
    /\ Len(text) = 2 /\ text[1] # text[2]
    /\ Cardinality(DrawPositions) = 2

AllNewlines(t) == Len(t) > 0 /\ \A i \in 1 .. Len(t) : t[i] = NEWLINE
AdvanceStep == op = "font_draw" /\ pc = "f_advance"

\* C5 as stated: in a string of newlines only, from any pen position, the pen
\* x after each newline equals the pen x before it.
C5_NewlineKeepsPenX ==
    [][(AdvanceStep /\ AllNewlines(text)) => pen'[1] = pen[1]]_vars

\* C5, amended: in a string of newlines only, from any pen position, the pen x
\* after each newline is 0 whatever the advance of the newline glyph: it equals
\* the pen x before the newline when that was 0, as it is after every newline
\* but the first; the pen y has advanced by the glyph's height times scale.
C5_NewlineResetsPenX ==
    [][(AdvanceStep /\ AllNewlines(text)) =>
          /\ pen'[1] = 0
          /\ (pen[1] = 0 \/ idx > 1) => pen'[1] = pen[1]
          /\ pen'[2] = pen[2] + glyphs[NEWLINE].texture.height * scale]_vars

\* after the first newline of a string of two, drawn from x = 3 at scale 2
C5_Witness ==
    /\ op = "font_draw" /\ pc = "f_loop" /\ idx = 2
    /\ text = <<NEWLINE, NEWLINE>>
    /\ pen = <<0, 3>>

\* C6: after a character other than the newline the pen x has grown by
\* (advance >> 6) * scale and the pen y is unchanged; after a newline the pen x
\* is 0 and the pen y has grown by the newline glyph's texture height times
\* scale; the quad was computed from the pen as it was before the advance.
C6_PenRule ==
    [][AdvanceStep =>
          LET c == text[idx]
              g == glyphs[c]
              xpos == pen[1] + g.bearing[1] * scale
              ypos == pen[2] - (g.texture.height - g.bearing[2]) * scale
          IN /\ IF c # NEWLINE
                THEN /\ pen'[1] = pen[1] + (g.advance \div 64) * scale
                     /\ pen'[2] = pen[2]
                ELSE /\ pen'[1] = 0
                     /\ pen'[2] = pen[2] + g.texture.height * scale
             /\ vertices[5] = xpos /\ vertices[6] = ypos
             /\ vertices[9] = xpos + g.texture.width * scale
             /\ vertices[2] = ypos + g.texture.height * scale]_vars

\* after 'A' (advance 165/64) drawn from x = 3 at scale 2
C6_Witness ==
    /\ op = "font_draw" /\ pc = "f_loop" /\ idx = 2
    /\ text[1] = 65
    /\ pen = <<7, 1>>

-----------------------------------------------------------------------------
(* Properties of SpriteRenderer::draw                                        *)

SpriteReturned == op = "sprite_draw" /\ pc = "ret"
AlphaBlend == <<"SRC_ALPHA", "ONE_MINUS_SRC_ALPHA">>

\* C7 as stated: for every call of draw, blending (source-alpha,
\* one-minus-source-alpha) is enabled when DrawArrays is issued and disabled
\* once the call has returned.
C7_BlendOffAfterEveryDraw ==
    /\ (op = "sprite_draw" /\ pc = "s_draw") =>
          gl.blend /\ gl.blendFunc = AlphaBlend
    /\ SpriteReturned => ~gl.blend

\* C7, amended: blending (source-alpha, one-minus-source-alpha) is enabled
\* when DrawArrays is issued; a draw that returns success has disabled it; a
\* draw that returns an error has returned at the failing call without
\* issuing Disable, and leaves blending enabled when a call after Enable (or
\* Disable itself) failed.
C7_BlendOffAfterSuccessfulDraw ==
    /\ (op = "sprite_draw" /\ pc = "s_draw") =>
          gl.blend /\ gl.blendFunc = AlphaBlend
    /\ (SpriteReturned /\ result = Ok) =>
          /\ ~gl.blend
          /\ cmds[Len(cmds)].fn = "Disable"
    /\ (SpriteReturned /\ IsErr(result)) =>
          /\ \A i \in 1 .. Len(cmds) - 1 : cmds[i].fn # "Disable"
          /\ Len(cmds) > 1 => gl.blend

\* a draw that returned success, with blending off again
C7_Witness ==
    /\ SpriteReturned /\ result = Ok
    /\ \E i \in 1 .. Len(cmds) : cmds[i].fn = "DrawArrays"
    /\ ~gl.blend

\* C8: the first failing step of draw (a checked call, or an upload of
\* "transform" or "spriteColor") is the last command of the call, and draw
\* returns its error.
C8_FirstFailureShortCircuits ==
    op = "sprite_draw" =>
        /\ \A i \in 1 .. Len(cmds) :
              cmds[i].err # NO_ERROR =>
                  /\ i = Len(cmds)
                  /\ pc = "ret"
                  /\ result = GlError(cmds[i].err)
        /\ (pc = "ret" /\ result.tag = "UniformNotFound") =>
              /\ cmds[Len(cmds)].fn = "GetUniformLocation"
              /\ cmds[Len(cmds)].arg = result.name
              /\ result.name \in {"transform", "spriteColor"}

-----------------------------------------------------------------------------
(* Properties of ShaderProgram's typed setters                               *)

SetterReturned == op = "set_uniform" /\ pc = "ret"
UploadFns ==
    {"Uniform1f", "Uniform1i", "Uniform3f", "Uniform4f", "UniformMatrix4fv"}
UploadOf(kind) ==
    CASE kind = "1f" -> "Uniform1f"
      [] kind = "1i" -> "Uniform1i"
      [] kind = "3f" -> "Uniform3f"
      [] kind = "4f" -> "Uniform4f"
      [] kind = "mat4" -> "UniformMatrix4fv"

\* C9: a typed setter given a name the API has no location for returns
\* UniformNotFound with that name and uploads nothing; given a name with a
\* location it performs the upload of its type and returns success unless the
\* checked upload reported an error, which it returns.
C9_SetterResult ==
    SetterReturned =>
        LET found == /\ uarg.name \in DeclaredUniforms(uarg.prog)
                     /\ missing # <<uarg.prog, uarg.name>>
        IN /\ cmds[1].fn = "GetUniformLocation"
           /\ cmds[1].arg = uarg.name
           /\ ~found =>
                 /\ result = UniformNotFound(uarg.name)
                 /\ Len(cmds) = 1
           /\ found =>
                 /\ Len(cmds) = 2
                 /\ cmds[2].fn \in UploadFns
                 /\ cmds[2].fn = UploadOf(uarg.kind)
                 /\ cmds[2].arg = uarg.name
                 /\ cmds[2].err = NO_ERROR => result = Ok
                 /\ cmds[2].err # NO_ERROR =>
                       /\ result.tag = "GlError"
                       /\ result.code = cmds[2].err

\* set_uniform_3f("spriteColor", ..) on the font program: not found
C9_Witness ==
    /\ SetterReturned
    /\ uarg.kind = "3f" /\ uarg.name = "spriteColor"
    /\ result = UniformNotFound("spriteColor")
    /\ Len(cmds) = 1

\* the <<program, name>> the next step asks the API the location of
NextQuery ==
    CASE op = "set_uniform" /\ pc = "u_set" -> {<<uarg.prog, uarg.name>>}
      [] op = "sprite_draw" /\ pc = "s_transform" -> {<<SpriteShader, "transform">>}
      [] op = "sprite_draw" /\ pc = "s_color" -> {<<SpriteShader, "spriteColor">>}
      [] op = "font_draw" /\ pc = "f_color" -> {<<FontShader, "textColor">>}
      [] op = "font_draw" /\ pc = "f_transform" -> {<<FontShader, "transform">>}
      [] OTHER -> {}

\* C10: the API is asked for the location of each uniform name of a program
\* at most once: a setter never asks for a name that was asked for before.
C10_LocationQueriedOnce ==
    NextQuery \cap queried = {}

-----------------------------------------------------------------------------
(* Properties of the checked graphics call (gl!)                             *)

\* the fixed table of reasons
ReasonTable(code) ==
    CASE code = 1280 -> "Invalid enum"
      [] code = 1281 -> "Invalid value"
      [] code = 1282 -> "Invalid operation"
      [] code = 1286 -> "Invalid framebuffer operation"
      [] code = 1285 -> "Out of memory"
      [] OTHER -> "Unknown error"

\* C11: a checked call that fails returns a GlError whose method is the name
\* of the wrapped API function, whose code is the code GetError returned and
\* whose message is the reason the fixed table gives for that code.
C11_GlErrorNamesFunction ==
    (SpriteReturned /\ result.tag = "GlError") =>
        /\ result.code = cmds[Len(cmds)].err
        /\ result.code # NO_ERROR
        /\ result.message = ReasonTable(result.code)
        /\ result.method = cmds[Len(cmds)].fn

-----------------------------------------------------------------------------
(* Properties of Texture                                                     *)

\* C12: no operation returns success (or returns nothing) while an error an
\* API call raised is still pending in the API, to be reported by a later
\* checked call.
C12_NoErrorLeftPending ==
    (pc = "ret" /\ ~IsErr(result)) => gl.err = NO_ERROR

MutatorOps == {"set_wrap_s", "set_wrap_t", "set_filter_min", "set_filter_max",
               "set_filter", "set_wrap"}
FieldNames == {"wrap_s", "wrap_t", "filter_min", "filter_max"}
\* the fields a mutator is asked to set
Requested(o) ==
    CASE o = "set_wrap_s" -> {"wrap_s"}
      [] o = "set_wrap_t" -> {"wrap_t"}
      [] o = "set_filter_min" -> {"filter_min"}
      [] o = "set_filter_max" -> {"filter_max"}
      [] o = "set_filter" -> {"filter_min", "filter_max"}
      [] o = "set_wrap" -> {"wrap_s", "wrap_t"}
\* the GPU parameter that matches a field
ParamOf(f) ==
    CASE f = "wrap_s" -> "WRAP_S"
      [] f = "wrap_t" -> "WRAP_T"
      [] f = "filter_min" -> "MIN_FILTER"
      [] f = "filter_max" -> "MAG_FILTER"

\* C14: a mutator leaves its texture bound, changes of the Texture only the
\* requested fields and of the GPU only the matching parameters of that
\* texture (set to the field's new value when the parameter takes it), and
\* changes no other texture; no method changes the handle, width, height or
\* formats of a Texture.
C14_MutatorFrame ==
    [][/\ \A k \in DOMAIN textures :
             /\ k \in DOMAIN textures'
             /\ \A f \in {"id", "width", "height", "internal_format",
                          "image_format"} : textures'[k][f] = textures[k][f]
       /\ op' \in MutatorOps =>
             LET id == gl'.tex IN
             /\ id \in DOMAIN textures
             /\ DOMAIN textures' = DOMAIN textures
             /\ DOMAIN gpuTex' = DOMAIN gpuTex
             /\ \A k \in DOMAIN textures \ {id} :
                   textures'[k] = textures[k] /\ gpuTex'[k] = gpuTex[k]
             /\ gpuTex'[id].mipmaps = gpuTex[id].mipmaps
             /\ \A f \in FieldNames \ Requested(op') :
                   /\ textures'[id][f] = textures[id][f]
                   /\ gpuTex'[id].params[ParamOf(f)] =
                         gpuTex[id].params[ParamOf(f)]
             /\ \A f \in Requested(op') :
                   gpuTex'[id].params[ParamOf(f)] =
                       IF ValidParam(ParamOf(f), textures'[id][f])
                       THEN textures'[id][f]
                       ELSE gpuTex[id].params[ParamOf(f)]]_vars

\* set_filter_min(NEAREST) on the first of two textures has returned
C14_Witness ==
    /\ op = "set_filter_min" /\ pc = "ret"
    /\ Cardinality(DOMAIN textures) = 2
    /\ gl.tex = SpriteTextureId + 1
    /\ textures[gl.tex].filter_min = NEAREST
    /\ textures[gl.tex].filter_max = LINEAR
    /\ gpuTex[gl.tex].params["MIN_FILTER"] = NEAREST
    /\ textures[gl.tex].width = 2 /\ textures[gl.tex].height = 3

-----------------------------------------------------------------------------
(* Properties of Shader::from_source and ShaderProgram::from_shaders         *)

Range(f) == {f[i] : i \in DOMAIN f}
\* the call in progress has issued the API function fn without an error
Issued(fn) == \E i \in 1 .. Len(cmds) : cmds[i].fn = fn /\ cmds[i].err = NO_ERROR

\* C13: a Shader value exists only for a shader object whose compile status
\* is success, and from_source returns the error with the compiler's log when
\* the status it read is failure; a ShaderProgram value exists only for a
\* program whose link status is success, linked with every input shader
\* attached (each a compiled Shader) and with every input shader detached
\* afterwards, and from_shaders returns the error with the link log when the
\* status it read is failure.
C13_CompileAndLinkGated ==
    /\ \A s \in shaderVals :
          shaderObjs[s].compiled /\ shaderObjs[s].source = "valid"
    /\ \A p \in progVals :
          /\ progObjs[p].linked
          /\ progObjs[p].attached = {}
          /\ progObjs[p].linkedFrom \subseteq shaderVals
    /\ (op = "from_source" /\ pc = "ret") =>
          /\ result.tag \in {"Ok", "Log", "GlError"}
          /\ result = Ok <=> sarg.shader \in shaderVals
          /\ Issued("GetShaderiv") =>
                result = IF shaderObjs[sarg.shader].compiled THEN Ok
                         ELSE LogError(shaderObjs[sarg.shader].log)
          /\ (Issued("CompileShader") /\ Issued("ShaderSource")
                /\ sarg.sources[1] = "invalid") =>
                result.tag = "Log" /\ result.message # ""
    /\ (op \in {"from_shaders", "sprite_new"} /\ pc = "pr_status") =>
          progObjs[sarg.prog].attached = Range(sarg.shaders)
    /\ (op = "from_shaders" /\ pc = "ret") =>
          /\ result.tag \in {"Ok", "Log", "GlError"}
          /\ result = Ok <=> sarg.prog \in progVals
          /\ result = Ok => progObjs[sarg.prog].linkedFrom = Range(sarg.shaders)
          /\ (Issued("GetProgramiv") /\ ~progObjs[sarg.prog].linked) =>
                result = LogError(progObjs[sarg.prog].log)

\* from_shaders has returned a program linked from a vertex and a fragment
\* shader, both detached again
C13_Witness ==
    /\ op = "from_shaders" /\ pc = "ret" /\ result = Ok
    /\ Len(sarg.shaders) = 2
    /\ sarg.prog \in progVals
    /\ progObjs[sarg.prog].linkedFrom = Range(sarg.shaders)
    /\ progObjs[sarg.prog].attached = {}

\* C18: SpriteRenderer::new reports every failure as a returned error: the
\* call returns Ok or an error to its caller, and never ends in a panic.
C18_NewReturnsEveryFailure ==
    (op = "sprite_new" /\ pc = "ret") =>
        /\ result.tag # "panic"
        /\ result = Ok => /\ sarg.prog \in progVals
                          /\ Range(sarg.shaders) \subseteq shaderVals

-----------------------------------------------------------------------------
(* Properties of Camera and of the sprite transform                          *)

CameraFields == {"projection", "screen", "position", "zoom", "rotation"}
\* the fields of the Camera a step assigns a different value to
CameraChanged == {f \in CameraFields : camera'[f] # camera[f]}
OrthoOfScreen(c) == Orthographic3_new(0, c.screen[1], c.screen[2], 0, -1, 1)

\* C15: set_position, set_zoom and set_rotation change at most their own
\* field, set_screen changes at most the screen size and the projection,
\* view() and draw change no field; and after every call projection() is the
\* orthographic projection (0, width, height, 0, -1, 1) of the screen size.
C15_CameraMutators ==
    [][(camera # NoCamera /\ op' \in CameraOps) =>
         /\ op' = "set_position" => CameraChanged \subseteq {"position"}
         /\ op' = "set_zoom" => CameraChanged \subseteq {"zoom"}
         /\ op' = "set_rotation" => CameraChanged \subseteq {"rotation"}
         /\ op' = "set_screen" => CameraChanged \subseteq {"screen", "projection"}
         /\ op' \in {"view", "sprite_transform"} => CameraChanged = {}
         /\ projection(camera') = OrthoOfScreen(camera')]_vars

\* set_screen has returned on a camera that was moved, zoomed and rotated
\* since Camera::new, after a view() whose result is no longer current
C15_Witness ==
    /\ op = "set_screen"
    /\ camera # NoCamera
    /\ camera.position # <<0, 0>> /\ camera.zoom # <<1, 1>>
    /\ camera.rotation # 0
    /\ viewOut # NoMatrix /\ viewOut # view(camera)
    /\ projection(camera) = OrthoOfScreen(camera)

\* m is the translation by <<x, y, z>> / den and nothing else
IsTranslation(m, v, den) == m = new_translation(v, den)
\* the entries of a - b, over the denominator a.den * b.den
DiffAt(a, b, i, j) == a.m[i][j] * b.den - b.m[i][j] * a.den
DiffRow(a, b, i) ==
    <<DiffAt(a, b, i, 1), DiffAt(a, b, i, 2), DiffAt(a, b, i, 3), DiffAt(a, b, i, 4)>>
Difference(a, b) == <<DiffRow(a, b, 1), DiffRow(a, b, 2), DiffRow(a, b, 3), DiffRow(a, b, 4)>>
Unrotated(c) == c # NoCamera /\ c.rotation = 0 /\ c.zoom = <<1, 1>>
AtScreen(c, s) == [c EXCEPT !.screen = s]
AtOrigin(c) == [c EXCEPT !.position = <<0, 0>>]

\* C16 as the specification states it: with rotation 0 and zoom (1,1), view()
\* returns the translation by the negated position (or, counting the
\* duplicated translation, by twice the negated position).
C16_ViewIsNegatedPosition ==
    (op = "view" /\ Unrotated(camera)) =>
        \/ IsTranslation(viewOut,
                         <<-camera.position[1], -camera.position[2], 0>>, 1)
        \/ IsTranslation(viewOut,
                         <<-2 * camera.position[1], -2 * camera.position[2], 0>>, 1)

\* C16, amended: with rotation 0 and zoom (1,1), view() returns the
\* translation by half the screen size minus the position; what the position
\* contributes (view() at p minus view() at the origin) is the negated
\* position, whatever the screen size; and a different screen size gives a
\* different projection().
C16_ViewIsCentredTranslation ==
    (op = "view" /\ Unrotated(camera)) =>
        /\ IsTranslation(viewOut,
                         <<camera.screen[1] - 2 * camera.position[1],
                           camera.screen[2] - 2 * camera.position[2], 0>>, 2)
        /\ \A s \in ScreenSizes :
              LET c == AtScreen(camera, s)
                  d == Difference(view(c), view(AtOrigin(c)))
                  k == view(c).den * view(AtOrigin(c)).den
              IN  /\ d = Difference(new_translation(
                                      <<-k * c.position[1], -k * c.position[2], 0>>, 1),
                                    new_translation(<<0, 0, 0>>, 1))
                  /\ s # camera.screen =>
                        projection(set_screen(camera, s[1], s[2])) # projection(camera)

\* view() has returned on an unrotated, unzoomed camera away from the origin,
C16_Witness ==
    /\ op = "view" /\ Unrotated(camera)
    /\ camera.position # <<0, 0>>
    /\ viewOut = view(camera)
    /\ viewOut # Identity

\* the image of the point <<x, y, 0, 1>> under m, as <<x', y', z', w'>> over m.den
ImageAt(m, x, y, i) == m.m[i][1] * x + m.m[i][2] * y + m.m[i][4]
Image(m, x, y) ==
    <<ImageAt(m, x, y, 1), ImageAt(m, x, y, 2), ImageAt(m, x, y, 3), ImageAt(m, x, y, 4)>>
Unturned == op = "sprite_transform" /\ targ.rotation = 0 /\ targ.view = Identity

\* C17: with rotation 0 and the identity as view, the transform draw uploads
\* is projection * translation(position) * scaling(size), and its model matrix
\* maps the quad corner (0,0) to position and the corner (1,1) to
\* position + size.
C17_TransformIsTranslateScale ==
    Unturned =>
        LET p == targ.position
            s == targ.size
            d == transform.model.den
        IN  /\ transform.transform =
                  Mul(targ.projection,
                      Mul(new_translation(p, 1),
                          new_nonuniform_scaling(<<s[1], s[2], 1>>)))
            /\ Image(transform.model, 0, 0) = <<d * p[1], d * p[2], d * p[3], d>>
            /\ Image(transform.model, 1, 1) =
                  <<d * (p[1] + s[1]), d * (p[2] + s[2]), d * p[3], d>>

\* draw has computed the transform of an odd-sized sprite away from the
\* origin, with rotation 0 and the identity as view
C17_Witness ==
    /\ Unturned
    /\ targ.position # <<0, 0, 0>>
    /\ targ.size[1] % 2 = 1
    /\ transform.transform # targ.projection

-----------------------------------------------------------------------------
(* The bindings the draws rely on                                            *)

OwnProgram(o) == IF o = "sprite_draw" THEN SpriteShader ELSE FontShader
OwnVao(o) == IF o = "sprite_draw" THEN QuadVao ELSE FontVao
DrawnTexture(o) ==
    IF o = "sprite_draw" THEN SpriteTextureId ELSE glyphs[text[idx]].texture.id

\* C19: whenever SpriteRenderer::draw or FontRenderer::draw issues a uniform
\* upload, the renderer's own program is the current program of the API, and
\* whenever they issue DrawArrays, the renderer's own vertex array and the
\* texture being drawn are the ones bound.
C19_BindingOrder ==
    [][(op' \in {"sprite_draw", "font_draw"} /\ Len(cmds') > Len(cmds)) =>
         LET issued == cmds'[Len(cmds')] IN
         /\ issued.fn \in UploadFns => gl.program = OwnProgram(op')
         /\ issued.fn = "DrawArrays" =>
               gl.vao = OwnVao(op') /\ gl.tex = DrawnTexture(op')]_vars

-----------------------------------------------------------------------------
(* Failures of load_glyph and of FontRenderer::draw                          *)

LoadSteps == {"g_pixelstore", "g_loadchar", "g_tryfrom"}
\* this step is load_glyph returning an error
LoadFails == pc \in LoadSteps /\ pc' = "ret" /\ IsErr(result')
IsPrefix(s, t) == Len(s) <= Len(t) /\ s = SubSeq(t, 1, Len(s))

\* C20: a load_glyph that fails (setting the unpack alignment, rasterizing
\* or building the texture) changes nothing in the cache and leaves no entry
\* for its character; the cache changes only by the insertion of the loaded
\* character when a load succeeds; and a draw that has returned an error has
\* called load_glyph for a prefix of the text only, ending at the character
\* it failed on, which has no entry when it is the load that failed.
C20_FailedLoadLeavesCache ==
    [][/\ LoadFails => glyphs' = glyphs /\ curChar \notin DOMAIN glyphs'
       /\ (glyphs' # glyphs /\ fontState' = fontState) =>
             /\ pc = "g_tryfrom" /\ ~IsErr(result')
             /\ curChar \notin DOMAIN glyphs
             /\ DOMAIN glyphs' = DOMAIN glyphs \cup {curChar}
             /\ \A k \in DOMAIN glyphs : glyphs'[k] = glyphs[k]
       /\ (op' = "font_draw" /\ pc' = "ret" /\ IsErr(result')) =>
             /\ IsPrefix(loads', text')
             /\ Len(loads') \in {idx' - 1, idx'}
             /\ DOMAIN glyphs' \subseteq rasterized'
             /\ LoadFails => /\ Len(loads') = idx'
                             /\ text'[idx'] = curChar
                             /\ text'[idx'] \notin DOMAIN glyphs']_vars

\* draw has failed loading the first of two characters: the second was not
\* processed and the first has no entry
C20_Witness ==
    /\ op = "font_draw" /\ pc = "ret"
    /\ result.tag \in {"FtError", "TextureError"}
    /\ Len(text) = 2 /\ loads = <<text[1]>>
    /\ text[1] \notin DOMAIN glyphs
    /\ text[2] \in DOMAIN glyphs
    /\ text[1] \in rasterized

-----------------------------------------------------------------------------
(* The sampling state recorded in a Texture and the state of its object      *)

\* C21: for every Texture the application holds, the fields wrap_s, wrap_t,
\* filter_min and filter_max equal the wrap-S, wrap-T, minification-filter and
\* magnification-filter parameters of the texture object with its handle.
C21_FieldsEqualGpuState ==
    \A id \in DOMAIN textures :
        /\ id \in DOMAIN gpuTex
        /\ \A f \in FieldNames : textures[id][f] = gpuTex[id].params[ParamOf(f)]

====
